---------------------------- MODULE Spec2Model ----------------------------
(***************************************************************************)
(* A model of src/mcp/postgres/server.py: the access-mode state set at     *)
(* startup, the lexical stripper, the single-statement normalizer and the  *)
(* access-policy classifier behind pg_query / pg_execute, and the lazily   *)
(* created connection pool guarded by an asyncio lock.                     *)
(*                                                                         *)
(* Python strings are modelled as sequences of one-character strings.      *)
(* Offsets are 0-based as in the source: Ch(s, i) is the source's s[i].    *)
(***************************************************************************)
EXTENDS Integers, Sequences, FiniteSets, TLC

(***************************************************************************)
(* Characters and the str methods the source uses.                         *)
(***************************************************************************)

UpperLetters == <<"A", "B", "C", "D", "E", "F", "G", "H", "I", "J", "K", "L", "M", "N", "O", "P", "Q", "R", "S", "T", "U", "V", "W", "X", "Y", "Z">>
LowerLetters == <<"a", "b", "c", "d", "e", "f", "g", "h", "i", "j", "k", "l", "m", "n", "o", "p", "q", "r", "s", "t", "u", "v", "w", "x", "y", "z">>
Digits == <<"0", "1", "2", "3", "4", "5", "6", "7", "8", "9">>

Range(f) == { f[k] : k \in DOMAIN f }

Ch(s, i) == s[i + 1]

Slice(s, a, b) == IF b <= a THEN << >> ELSE SubSeq(s, a + 1, b)

Min2(a, b) == IF a <= b THEN a ELSE b

AlnumChars == Range(UpperLetters) \cup Range(LowerLetters) \cup Range(Digits)

\* str.isalnum() on one character
isalnum(c) == c \in AlnumChars

\* a variant of IsWordChar: the underscore is not a word character
IsWordCharAlnumOnly(c) == isalnum(c)

\* the regex class \w (and [A-Za-z0-9_] of the dollar-quote tag): isalnum or "_"
IsWordChar(c) == isalnum(c) \/ c = "_"

\* str.isspace() / the regex class \s on one character
isspace(c) == c \in {" ", "\n", "\t"}

\* str.lower() on one character
LowerOf == [u \in Range(UpperLetters) |->
               LowerLetters[CHOOSE k \in DOMAIN UpperLetters : UpperLetters[k] = u]]

lower_char(c) == IF c \in DOMAIN LowerOf THEN LowerOf[c] ELSE c

lower(s) == [k \in 1..Len(s) |-> lower_char(s[k])]

\* str.startswith(p, i)
startswith(s, p, i) ==
    /\ i + Len(p) <= Len(s)
    /\ \A k \in 1..Len(p) : s[i + k] = p[k]

endswith(s, p) == Len(p) <= Len(s) /\ startswith(s, p, Len(s) - Len(p))

\* str.find(sub, i): the smallest offset >= i where sub occurs, or -1
RECURSIVE find(_, _, _)
find(s, sub, i) ==
    IF i + Len(sub) > Len(s) THEN -1
    ELSE IF startswith(s, sub, i) THEN i
    ELSE find(s, sub, i + 1)

\* sub in s
contains(s, sub) == find(s, sub, 0) >= 0

RECURSIVE lstrip(_)
lstrip(s) == IF Len(s) > 0 /\ isspace(s[1]) THEN lstrip(Tail(s)) ELSE s

RECURSIVE rstrip(_)
rstrip(s) ==
    IF Len(s) > 0 /\ isspace(s[Len(s)]) THEN rstrip(SubSeq(s, 1, Len(s) - 1)) ELSE s

\* str.strip()
strip(s) == rstrip(lstrip(s))

\* a variant of rstrip_semicolons: one trailing ";" only
rstrip_one_semicolon(s) ==
    IF Len(s) > 0 /\ s[Len(s)] = ";" THEN SubSeq(s, 1, Len(s) - 1) ELSE s

\* str.rstrip(";"): every trailing ";"
RECURSIVE rstrip_semicolons_loop(_)
rstrip_semicolons_loop(s) ==
    IF Len(s) > 0 /\ s[Len(s)] = ";"
    THEN rstrip_semicolons_loop(SubSeq(s, 1, Len(s) - 1))
    ELSE s

rstrip_semicolons(s) == rstrip_semicolons_loop(s)


(***************************************************************************)
(* The literals of the source.                                             *)
(***************************************************************************)
s_select == <<"s", "e", "l", "e", "c", "t">>
s_with == <<"w", "i", "t", "h">>
s_explain == <<"e", "x", "p", "l", "a", "i", "n">>
s_insert == <<"i", "n", "s", "e", "r", "t">>
s_update == <<"u", "p", "d", "a", "t", "e">>
s_delete == <<"d", "e", "l", "e", "t", "e">>
s_create == <<"c", "r", "e", "a", "t", "e">>
s_alter == <<"a", "l", "t", "e", "r">>
s_drop == <<"d", "r", "o", "p">>
s_truncate == <<"t", "r", "u", "n", "c", "a", "t", "e">>
s_grant == <<"g", "r", "a", "n", "t">>
s_revoke == <<"r", "e", "v", "o", "k", "e">>
s_call == <<"c", "a", "l", "l">>
s_do == <<"d", "o">>
s_system == <<"s", "y", "s", "t", "e", "m">>
s_readonly == <<"r", "e", "a", "d", "o", "n", "l", "y">>
s_limited == <<"l", "i", "m", "i", "t", "e", "d">>
s_unrestricted == <<"u", "n", "r", "e", "s", "t", "r", "i", "c", "t", "e", "d">>
s_where_mid == <<" ", "w", "h", "e", "r", "e", " ">>
s_where_end == <<" ", "w", "h", "e", "r", "e">>
s_pg_execute == "pg_execute"

(***************************************************************************)
(* Results of a policy check: the exception raised, or none.               *)
(***************************************************************************)
NoError == [exc |-> "None", msg |-> ""]

PermissionError(m) == [exc |-> "PermissionError", msg |-> m]

ValueError(m) == [exc |-> "ValueError", msg |-> m]

(***************************************************************************)
(* _strip_sql_for_policy: the scanner loop, one recursive step per         *)
(* iteration of the outer while, the inner whiles as their own loops.      *)
(***************************************************************************)
RECURSIVE line_comment_end(_, _)
line_comment_end(sql, i) ==
    IF i < Len(sql) /\ Ch(sql, i) # "\n" THEN line_comment_end(sql, i + 1) ELSE i

RECURSIVE block_comment_end(_, _)
block_comment_end(sql, i) ==
    IF i + 1 < Len(sql) /\ ~startswith(sql, <<"*", "/">>, i)
    THEN block_comment_end(sql, i + 1)
    ELSE Min2(Len(sql), i + 2)

\* a variant of quoted_end: a doubled quote is not an escape
quoted_end_no_escape(sql, i, q) ==
    LET e == find(sql, <<q>>, i) IN IF e = -1 THEN Len(sql) ELSE e + 1

RECURSIVE quoted_end_loop(_, _, _)
quoted_end_loop(sql, i, q) ==
    IF i < Len(sql)
    THEN IF Ch(sql, i) = q
         THEN IF i + 1 < Len(sql) /\ Ch(sql, i + 1) = q
              THEN quoted_end_loop(sql, i + 2, q)
              ELSE i + 1
         ELSE quoted_end_loop(sql, i + 1, q)
    ELSE i

quoted_end(sql, i, q) == quoted_end_loop(sql, i, q)

\* re.match(r"\$[A-Za-z0-9_]*\$", sql[i:]) with sql[i] = "$": the matched marker,
\* or the empty sequence when there is no match
RECURSIVE tag_chars_end(_, _)
tag_chars_end(sql, j) ==
    IF j < Len(sql) /\ IsWordChar(Ch(sql, j)) THEN tag_chars_end(sql, j + 1) ELSE j

\* a variant of dollar_tag: the dollar quote is never recognized
dollar_tag_never(sql, i) == << >>

dollar_tag(sql, i) ==
    LET j == tag_chars_end(sql, i + 1)
    IN  IF j < Len(sql) /\ Ch(sql, j) = "$" THEN Slice(sql, i, j + 1) ELSE << >>

RECURSIVE strip_loop(_, _, _)
strip_loop(sql, i, out) ==
    IF i >= Len(sql) THEN out
    ELSE IF startswith(sql, <<"-", "-">>, i)
    THEN strip_loop(sql, line_comment_end(sql, i + 2), Append(out, " "))
    ELSE IF startswith(sql, <<"/", "*">>, i)
    THEN strip_loop(sql, block_comment_end(sql, i + 2), Append(out, " "))
    ELSE IF Ch(sql, i) = "'"
    THEN strip_loop(sql, quoted_end(sql, i + 1, "'"), Append(out, " "))
    ELSE IF Ch(sql, i) = "\""
    THEN strip_loop(sql, quoted_end(sql, i + 1, "\""), Append(out, " "))
    ELSE IF Ch(sql, i) = "$" /\ dollar_tag(sql, i) # << >>
    THEN LET tag == dollar_tag(sql, i)
             end == find(sql, tag, i + Len(tag))
         IN  IF end = -1
             THEN Append(out, " ")
             ELSE strip_loop(sql, end + Len(tag), Append(out, " "))
    ELSE strip_loop(sql, i + 1, Append(out, Ch(sql, i)))

_strip_sql_for_policy(sql) == strip_loop(sql, 0, << >>)

(***************************************************************************)
(* _ensure_single_statement: strip, rstrip(";"), strip, then ";" in s.     *)
(***************************************************************************)
normalized(sql_for_policy) == strip(rstrip_semicolons(strip(sql_for_policy)))

_ensure_single_statement(sql_for_policy) ==
    LET s == normalized(sql_for_policy)
    IN  IF contains(s, <<";">>)
        THEN [err |-> PermissionError("Multiple statements are not allowed."), s |-> s]
        ELSE [err |-> NoError, s |-> s]

(***************************************************************************)
(* _require_where_for_update_delete                                        *)
(***************************************************************************)
has_word_at(lowered, idx, word) ==
    IF idx < 0 THEN FALSE
    ELSE LET before_ok == idx = 0 \/ ~isalnum(Ch(lowered, idx - 1))
             after     == idx + Len(word)
             after_ok  == after >= Len(lowered) \/ ~isalnum(Ch(lowered, after))
         IN  before_ok /\ after_ok

tail_has_where(tail) == contains(tail, s_where_mid) \/ endswith(tail, s_where_end)

_require_where_for_update_delete(lowered) ==
    LET update_idx == find(lowered, s_update, 0)
        delete_idx == find(lowered, s_delete, 0)
        upd        == has_word_at(lowered, update_idx, s_update)
        del        == has_word_at(lowered, delete_idx, s_delete)
        first_kind == IF del /\ (~upd \/ delete_idx < update_idx) THEN "DELETE"
                      ELSE IF upd THEN "UPDATE" ELSE "None"
        first_idx  == IF first_kind = "DELETE" THEN delete_idx ELSE update_idx
    IN  IF first_kind = "None" THEN NoError
        ELSE IF ~tail_has_where(Slice(lowered, first_idx, Len(lowered)))
        THEN PermissionError(IF first_kind = "UPDATE"
                             THEN "UPDATE requires a WHERE clause in limited access mode."
                             ELSE "DELETE requires a WHERE clause in limited access mode.")
        ELSE NoError

(***************************************************************************)
(* The regular expressions of _enforce_access_policy.                      *)
(***************************************************************************)
\* \b at offset p: exactly one of the characters around p is a word character
word_boundary(s, p) ==
    (p > 0 /\ IsWordChar(Ch(s, p - 1))) # (p < Len(s) /\ IsWordChar(Ch(s, p)))

\* re.search(r"\b(w1|w2|...)\b", s)
search_words(s, words) ==
    \E i \in 0..Len(s) : \E w \in words :
        /\ word_boundary(s, i)
        /\ startswith(s, w, i)
        /\ word_boundary(s, i + Len(w))

\* re.match(r"^\s*(w1|w2|...)\b", s)
match_leading_words(s, words) ==
    LET t == lstrip(s)
    IN  \E w \in words : startswith(t, w, 0) /\ word_boundary(t, Len(w))

\* re.search(r"\balter\s+system\b", s)
search_alter_system(s) ==
    \E i \in 0..Len(s) :
        /\ word_boundary(s, i)
        /\ startswith(s, s_alter, i)
        /\ \E j \in (i + Len(s_alter) + 1)..Len(s) :
              /\ \A k \in (i + Len(s_alter))..(j - 1) : isspace(Ch(s, k))
              /\ startswith(s, s_system, j)
              /\ word_boundary(s, j + Len(s_system))

ReadonlyLeading == {s_select, s_with, s_explain}

ReadonlyBlocked ==
    {s_insert, s_update, s_delete, s_create, s_alter, s_drop, s_truncate,
     s_grant, s_revoke, s_call, s_do}

(***************************************************************************)
(* _enforce_access_policy(sql, tool_name) under access mode `mode`.        *)
(***************************************************************************)
\* a variant of readonly_policy: the tool check is missing
readonly_policy_any_tool(lowered, tool_name) ==
    IF ~match_leading_words(lowered, ReadonlyLeading)
    THEN PermissionError("Only SELECT queries are allowed in readonly access mode.")
    ELSE IF search_words(lowered, ReadonlyBlocked)
    THEN PermissionError("Readonly access mode blocks DML/DDL/DCL statements.")
    ELSE NoError

\* a variant of readonly_policy: the blocked-word search is missing
readonly_policy_no_blocklist(lowered, tool_name) ==
    IF tool_name = s_pg_execute
    THEN PermissionError("pg_execute is not allowed in readonly access mode.")
    ELSE IF ~match_leading_words(lowered, ReadonlyLeading)
    THEN PermissionError("Only SELECT queries are allowed in readonly access mode.")
    ELSE NoError

readonly_policy(lowered, tool_name) ==
    IF tool_name = s_pg_execute
    THEN PermissionError("pg_execute is not allowed in readonly access mode.")
    ELSE IF ~match_leading_words(lowered, ReadonlyLeading)
    THEN PermissionError("Only SELECT queries are allowed in readonly access mode.")
    ELSE IF search_words(lowered, ReadonlyBlocked)
    THEN PermissionError("Readonly access mode blocks DML/DDL/DCL statements.")
    ELSE IF match_leading_words(lowered, {s_explain})
            /\ ~search_words(lowered, {s_select, s_with})
    THEN PermissionError("EXPLAIN is only allowed for SELECT queries.")
    ELSE NoError

limited_policy(lowered) ==
    IF search_words(lowered, {s_grant, s_revoke})
    THEN PermissionError("DCL (GRANT/REVOKE) is not allowed in limited access mode.")
    ELSE IF search_words(lowered, {s_drop, s_truncate})
    THEN PermissionError("DROP/TRUNCATE are not allowed in limited access mode.")
    ELSE IF search_alter_system(lowered)
    THEN PermissionError("ALTER SYSTEM is not allowed in limited access mode.")
    ELSE _require_where_for_update_delete(lowered)

_enforce_access_policy(sql, tool_name, mode) ==
    IF mode = s_unrestricted THEN NoError
    ELSE LET stripped == _strip_sql_for_policy(sql)
             single   == _ensure_single_statement(stripped)
             lowered  == lower(single.s)
         IN  IF single.err # NoError THEN single.err
             ELSE IF mode = s_readonly THEN readonly_policy(lowered, tool_name)
             ELSE IF mode = s_limited THEN limited_policy(lowered)
             ELSE ValueError("Unknown access mode")

(***************************************************************************)
(* Bounds of the model.                                                    *)
(***************************************************************************)
\* concurrent tool calls in flight
NTasks == 2

\* pieces concatenated into one SQL text
MaxPieces == 4

\* cap of the counter of successfully created pools
MaxPools == 2

Tasks == 1..NTasks

VARIABLES
    env_PG_ACCESS_MODE,  \* os.getenv("PG_ACCESS_MODE"): [set, val]
    arg_access_mode,     \* the --access-mode argument: [given, val]
    dsn_configured,      \* whether _build_dsn finds a database configuration
    phase,               \* "startup" (module imported), "serving" (mcp.run), "exited"
    _ACCESS_MODE,
    _pool,               \* 0 is None, else the id of the pool
    _pool_lock,          \* 0 is unlocked, else the task inside "async with"
    pools_created,       \* create_pool calls that returned a pool
    pc, tool, sql, result, db_ops, got_pool,   \* per task: the tool call in flight
    g_sql, g_tool, g_stripped, g_result, g_pc  \* one direct application of the policy engine

server_vars ==
    <<env_PG_ACCESS_MODE, arg_access_mode, dsn_configured, phase,
      _pool, _pool_lock, pools_created, pc, tool, sql, result, db_ops, got_pool>>

gate_vars == <<g_sql, g_tool, g_stripped, g_result, g_pc>>

vars == <<server_vars, _ACCESS_MODE, gate_vars>>

(***************************************************************************)
(* Startup: the module-level _ACCESS_MODE, argparse and _set_access_mode.  *)
(***************************************************************************)
ValidModes == {s_readonly, s_limited, s_unrestricted}

\* _ACCESS_MODE = (os.getenv("PG_ACCESS_MODE") or "readonly").strip().lower()
initial_access_mode(env) ==
    lower(strip(IF env.set /\ env.val # << >> THEN env.val ELSE s_readonly))

\* _set_access_mode(mode): the new _ACCESS_MODE, or the ValueError
_set_access_mode(mode) ==
    LET normalized_mode == lower(strip(mode))
    IN  IF normalized_mode \notin ValidModes
        THEN [err |-> ValueError("access mode must be one of: readonly, limited, unrestricted"),
              mode |-> << >>]
        ELSE [err |-> NoError, mode |-> normalized_mode]

\* argparse choices=["readonly", "limited", "unrestricted"]
ArgparseChoices == {s_readonly, s_limited, s_unrestricted}

EnvChoices ==
    { [set |-> FALSE, val |-> << >>],
      [set |-> TRUE, val |-> <<" ", "L", "i", "m", "i", "t", "e", "d", "\n">>],
      [set |-> TRUE, val |-> <<"a", "d", "m", "i", "n">>] }

ArgChoices ==
    { [given |-> FALSE, val |-> << >>],
      [given |-> TRUE, val |-> s_unrestricted],
      [given |-> TRUE, val |-> <<"R", "e", "a", "d", "O", "n", "l", "y">>] }

\* the texts the tool calls of the server specification carry
ServerSqls ==
    { <<"s", "e", "l", "e", "c", "t", " ", "1">>,
      <<"d", "r", "o", "p", " ", "t", ";", "x">> }

\* the tools behind the access policy; pg_healthcheck stands for those that are not
PolicyTools == {"pg_query", "pg_execute"}

GateIdle ==
    /\ g_sql = << >>
    /\ g_tool = "pg_query"
    /\ g_stripped = << >>
    /\ g_result = NoError
    /\ g_pc = "unused"

Init ==
    /\ env_PG_ACCESS_MODE \in EnvChoices
    /\ arg_access_mode \in ArgChoices
    /\ dsn_configured \in BOOLEAN
    /\ phase = "startup"
    /\ _ACCESS_MODE = initial_access_mode(env_PG_ACCESS_MODE)
    /\ _pool = 0
    /\ _pool_lock = 0
    /\ pools_created = 0
    /\ pc = [t \in Tasks |-> "idle"]
    /\ tool = [t \in Tasks |-> "none"]
    /\ sql = [t \in Tasks |-> << >>]
    /\ result = [t \in Tasks |-> NoError]
    /\ db_ops = [t \in Tasks |-> << >>]
    /\ got_pool = [t \in Tasks |-> 0]
    /\ GateIdle

\* the __main__ block: parse_known_args, _set_access_mode, mcp.run()
Main ==
    /\ phase = "startup"
    /\ IF arg_access_mode.given /\ arg_access_mode.val \notin ArgparseChoices
       THEN \* argparse rejects the value and exits
            /\ phase' = "exited"
            /\ UNCHANGED _ACCESS_MODE
       ELSE IF arg_access_mode.given /\ arg_access_mode.val # << >>
       THEN LET r == _set_access_mode(arg_access_mode.val)
            IN  IF r.err # NoError
                THEN phase' = "exited" /\ UNCHANGED _ACCESS_MODE
                ELSE phase' = "serving" /\ _ACCESS_MODE' = r.mode
       ELSE phase' = "serving" /\ UNCHANGED _ACCESS_MODE
    /\ UNCHANGED <<env_PG_ACCESS_MODE, arg_access_mode, dsn_configured, _pool, _pool_lock,
                   pools_created, pc, tool, sql, result, db_ops, got_pool, gate_vars>>

(***************************************************************************)
(* The tool handlers, one action per stretch of code between two awaits.   *)
(***************************************************************************)
RuntimeError(m) == [exc |-> "RuntimeError", msg |-> m]

OSError(m) == [exc |-> "OSError", msg |-> m]

\* a variant of after_policy: the handler goes on whatever the check said
after_policy_advisory(res) == "get_pool"

\* the statement _enforce_access_policy(sql, tool_name=...): an exception leaves the handler
after_policy(res) == IF res = NoError THEN "get_pool" ELSE "raised"

\* a variant of lock_available: the lock is never held against anyone
lock_available_always(lock) == TRUE

\* async with _pool_lock: entered only while nobody holds the lock
lock_available(lock) == lock = 0

\* a tool is called: the policy check, the limit check, then _get_pool up to its lock
Call(t, tl, s, limit) ==
    /\ phase = "serving"
    /\ pc[t] = "idle"
    /\ tool' = [tool EXCEPT ![t] = tl]
    /\ sql' = [sql EXCEPT ![t] = s]
    /\ LET res  == IF tl = "pg_healthcheck" THEN NoError
                   ELSE _enforce_access_policy(s, tl, _ACCESS_MODE)
           res2 == IF res = NoError /\ tl = "pg_query" /\ limit <= 0
                   THEN ValueError("limit must be > 0")
                   ELSE res
       IN  /\ result' = [result EXCEPT ![t] = res2]
           /\ IF after_policy(res2) = "raised"
              THEN pc' = [pc EXCEPT ![t] = "raised"] /\ UNCHANGED got_pool
              ELSE IF _pool # 0
              THEN /\ pc' = [pc EXCEPT ![t] = "acquire"]
                   /\ got_pool' = [got_pool EXCEPT ![t] = _pool]
              ELSE pc' = [pc EXCEPT ![t] = "lock_wait"] /\ UNCHANGED got_pool
    /\ UNCHANGED <<env_PG_ACCESS_MODE, arg_access_mode, dsn_configured, phase, _ACCESS_MODE,
                   _pool, _pool_lock, pools_created, db_ops, gate_vars>>

\* _get_pool inside the lock: the second check, _build_dsn, the start of create_pool
EnterLock(t) ==
    /\ pc[t] = "lock_wait"
    /\ lock_available(_pool_lock)
    /\ IF _pool # 0
       THEN /\ got_pool' = [got_pool EXCEPT ![t] = _pool]
            /\ pc' = [pc EXCEPT ![t] = "acquire"]
            /\ UNCHANGED <<_pool_lock, result, db_ops>>
       ELSE IF ~dsn_configured
       THEN /\ result' = [result EXCEPT ![t] = RuntimeError("Missing database config.")]
            /\ pc' = [pc EXCEPT ![t] = "raised"]
            /\ UNCHANGED <<_pool_lock, got_pool, db_ops>>
       ELSE /\ _pool_lock' = t
            /\ db_ops' = [db_ops EXCEPT ![t] = Append(@, "create_pool")]
            /\ pc' = [pc EXCEPT ![t] = "creating"]
            /\ UNCHANGED <<result, got_pool>>
    /\ UNCHANGED <<env_PG_ACCESS_MODE, arg_access_mode, dsn_configured, phase, _ACCESS_MODE,
                   _pool, pools_created, tool, sql, gate_vars>>

\* await asyncpg.create_pool(...) returns a pool: _pool is set, the lock released
CreatePoolOk(t) ==
    /\ pc[t] = "creating"
    /\ pools_created < MaxPools
    /\ pools_created' = pools_created + 1
    /\ _pool' = pools_created + 1
    /\ got_pool' = [got_pool EXCEPT ![t] = pools_created + 1]
    /\ _pool_lock' = 0
    /\ pc' = [pc EXCEPT ![t] = "acquire"]
    /\ UNCHANGED <<env_PG_ACCESS_MODE, arg_access_mode, dsn_configured, phase, _ACCESS_MODE,
                   tool, sql, result, db_ops, gate_vars>>

\* await asyncpg.create_pool(...) raises: the lock is released, _pool is not assigned
CreatePoolFail(t) ==
    /\ pc[t] = "creating"
    /\ _pool_lock' = 0
    /\ result' = [result EXCEPT ![t] = OSError("create_pool failed")]
    /\ pc' = [pc EXCEPT ![t] = "raised"]
    /\ UNCHANGED <<env_PG_ACCESS_MODE, arg_access_mode, dsn_configured, phase, _ACCESS_MODE,
                   _pool, pools_created, tool, sql, db_ops, got_pool, gate_vars>>

\* the four awaits on the connection, in the order of the handler
DbStep(t, at, op, next) ==
    /\ pc[t] = at
    /\ db_ops' = [db_ops EXCEPT ![t] = Append(@, op)]
    /\ pc' = [pc EXCEPT ![t] = next]
    /\ UNCHANGED <<env_PG_ACCESS_MODE, arg_access_mode, dsn_configured, phase, _ACCESS_MODE,
                   _pool, _pool_lock, pools_created, tool, sql, result, got_pool, gate_vars>>

ConnAcquire(t) == DbStep(t, "acquire", "acquire", "begin")

TxnBegin(t) == DbStep(t, "begin", "begin", "set_timeout")

SetTimeout(t) == DbStep(t, "set_timeout", "set_timeout", "execute")

Execute(t) == DbStep(t, "execute", "execute", "done")

\* the handler returns or its exception reaches the caller; the task may call again
Return(t) ==
    /\ pc[t] \in {"done", "raised"}
    /\ pc' = [pc EXCEPT ![t] = "idle"]
    /\ tool' = [tool EXCEPT ![t] = "none"]
    /\ sql' = [sql EXCEPT ![t] = << >>]
    /\ result' = [result EXCEPT ![t] = NoError]
    /\ db_ops' = [db_ops EXCEPT ![t] = << >>]
    /\ got_pool' = [got_pool EXCEPT ![t] = 0]
    /\ UNCHANGED <<env_PG_ACCESS_MODE, arg_access_mode, dsn_configured, phase, _ACCESS_MODE,
                   _pool, _pool_lock, pools_created, gate_vars>>

Next ==
    \/ Main
    \/ \E t \in Tasks : \E tl \in PolicyTools : \E s \in ServerSqls : \E limit \in {0, 200} :
          Call(t, tl, s, limit)
    \/ \E t \in Tasks : Call(t, "pg_healthcheck", << >>, 200)
    \/ \E t \in Tasks : EnterLock(t)
    \/ \E t \in Tasks : CreatePoolOk(t)
    \/ \E t \in Tasks : CreatePoolFail(t)
    \/ \E t \in Tasks : ConnAcquire(t)
    \/ \E t \in Tasks : TxnBegin(t)
    \/ \E t \in Tasks : SetTimeout(t)
    \/ \E t \in Tasks : Execute(t)
    \/ \E t \in Tasks : Return(t)

Spec == Init /\ [][Next]_vars

(***************************************************************************)
(* Direct applications of the policy engine to one SQL text.  The text,    *)
(* the tool and the access mode are drawn in the initial state; the server *)
(* is up and idle.                                                         *)
(***************************************************************************)
RECURSIVE Flatten(_)
Flatten(ps) == IF ps = << >> THEN << >> ELSE Head(ps) \o Flatten(Tail(ps))

\* every text made of at most MaxPieces pieces
TextsOf(pieces) ==
    { Flatten(ps) : ps \in UNION { [1..k -> pieces] : k \in 0..MaxPieces } }

GateInit(texts, modes, tools) ==
    /\ g_sql \in texts
    /\ g_tool \in tools
    /\ _ACCESS_MODE \in modes
    /\ g_stripped = << >>
    /\ g_result = NoError
    /\ g_pc = "input"
    /\ env_PG_ACCESS_MODE = [set |-> FALSE, val |-> << >>]
    /\ arg_access_mode = [given |-> TRUE, val |-> _ACCESS_MODE]
    /\ dsn_configured = TRUE
    /\ phase = "serving"
    /\ _pool = 0
    /\ _pool_lock = 0
    /\ pools_created = 0
    /\ pc = [t \in Tasks |-> "idle"]
    /\ tool = [t \in Tasks |-> "none"]
    /\ sql = [t \in Tasks |-> << >>]
    /\ result = [t \in Tasks |-> NoError]
    /\ db_ops = [t \in Tasks |-> << >>]
    /\ got_pool = [t \in Tasks |-> 0]

\* _strip_sql_for_policy(g_sql)
StripSqlForPolicy ==
    /\ g_pc = "input"
    /\ g_stripped' = _strip_sql_for_policy(g_sql)
    /\ g_pc' = "stripped"
    /\ UNCHANGED <<server_vars, _ACCESS_MODE, g_sql, g_tool, g_result>>

\* _enforce_access_policy(g_sql, g_tool); g_stripped keeps the text it classified
EnforceAccessPolicy ==
    /\ g_pc = "input"
    /\ g_result' = _enforce_access_policy(g_sql, g_tool, _ACCESS_MODE)
    /\ g_stripped' = IF _ACCESS_MODE = s_unrestricted THEN << >>
                     ELSE _strip_sql_for_policy(g_sql)
    /\ g_pc' = "checked"
    /\ UNCHANGED <<server_vars, _ACCESS_MODE, g_sql, g_tool>>

LexPieces ==
    { <<"-", "-">>, <<"\n">>, <<"/", "*">>, <<"*", "/">>, <<"'">>, <<"\"">>,
      <<"$", "a", "$">>, <<"$">>, <<"a">>, <<"*">> }

InitStrip == GateInit(TextsOf(LexPieces), {s_readonly}, {"pg_query"})

SpecStrip == InitStrip /\ [][StripSqlForPolicy]_vars

HiddenPieces ==
    { <<"s", "e", "l", "e", "c", "t", " ">>, <<"D", "r", "o", "p">>, <<"'">>, <<"\"">>,
      <<"-", "-">>, <<"\n">>, <<"/", "*">>, <<"*", "/">>, <<"$", "a", "$">> }

InitHidden == GateInit(TextsOf(HiddenPieces), {s_readonly, s_limited}, {"pg_query"})

SpecHidden == InitHidden /\ [][EnforceAccessPolicy]_vars

ReadonlyPieces ==
    { <<"s", "e", "l", "e", "c", "t">>, <<"E", "x", "p", "l", "a", "i", "n">>,
      <<"w", "i", "t", "h">>, <<"d", "o">>, <<"d", "r", "o", "p">>,
      <<" ">>, <<"(">>, <<"_">>, <<";">> }

InitReadonly == GateInit(TextsOf(ReadonlyPieces), {s_readonly}, {"pg_query", "pg_execute"})

SpecReadonly == InitReadonly /\ [][EnforceAccessPolicy]_vars

LimitedPieces ==
    { <<"s", "e", "l", "e", "c", "t", " ">>, <<"u", "p", "d", "a", "t", "e">>,
      <<"D", "e", "l", "e", "t", "e">>, <<"d", "r", "o", "p">>,
      <<"g", "r", "a", "n", "t">>, <<"_">>, <<"d", " ">>,
      <<" ", "w", "h", "e", "r", "e">> }

InitLimited == GateInit(TextsOf(LimitedPieces), {s_readonly, s_limited}, {"pg_query"})

SpecLimited == InitLimited /\ [][EnforceAccessPolicy]_vars

NormalizerPieces ==
    { <<";">>, <<" ">>, <<"\n">>, <<"s", "e", "l", "e", "c", "t">>, <<"'">>, <<"1">> }

InitNormalizer ==
    GateInit(TextsOf(NormalizerPieces), {s_readonly, s_limited, s_unrestricted},
             {"pg_query", "pg_execute"})

SpecNormalizer == InitNormalizer /\ [][EnforceAccessPolicy]_vars

(***************************************************************************)
(* The denial reasons of the specification, by the message raised.         *)
(***************************************************************************)
ReasonKind(res) ==
    IF res.exc = "None" THEN "Allow"
    ELSE IF res.msg = "Multiple statements are not allowed."
    THEN "MultipleStatementsForbidden"
    ELSE IF res.msg = "pg_execute is not allowed in readonly access mode."
    THEN "ToolForbidden"
    ELSE IF res.msg \in {"UPDATE requires a WHERE clause in limited access mode.",
                         "DELETE requires a WHERE clause in limited access mode."}
    THEN "MissingWhereClause"
    ELSE IF res.msg = "Unknown access mode" THEN "UnknownAccessMode"
    ELSE IF res.exc = "PermissionError" THEN "StatementTypeForbidden"
    ELSE "Other"

PolicyDenied(res) == res.exc = "PermissionError" \/ ReasonKind(res) = "UnknownAccessMode"

Least(S) == CHOOSE x \in S : \A y \in S : x <= y

(***************************************************************************)
(* C1, C8, C10: the server.                                                *)
(***************************************************************************)
DatabaseOps == {"create_pool", "acquire", "begin", "set_timeout", "execute"}

\* C1: in every call of pg_query or pg_execute the database is touched (pool creation,
\* connection acquisition, transaction start, timeout SET, execution) only after the
\* policy check of that call has allowed it, and a call the check denies never touches
\* the database nor obtains the pool.
C1_PolicyBeforeDatabase ==
    \A t \in Tasks :
        tool[t] \in PolicyTools =>
            /\ (db_ops[t] # << >> \/ got_pool[t] # 0 \/ pc[t] \in {"lock_wait", "creating"})
                  => /\ ~PolicyDenied(result[t])
                     /\ _enforce_access_policy(sql[t], tool[t], _ACCESS_MODE) = NoError
            /\ PolicyDenied(result[t])
                  => db_ops[t] = << >> /\ got_pool[t] = 0 /\ pc[t] = "raised"
            /\ Range(db_ops[t]) \subseteq DatabaseOps

\* a denied pg_execute next to a pg_query that has run its statement
C1_Witness ==
    \E t \in Tasks : \E u \in Tasks :
        /\ tool[t] = "pg_execute" /\ PolicyDenied(result[t]) /\ pc[t] = "raised"
        /\ tool[u] = "pg_query" /\ pc[u] = "done"
        /\ db_ops[u] = <<"create_pool", "acquire", "begin", "set_timeout", "execute">>

\* C8: an unrecognized access mode, from the flag or from the environment, aborts
\* startup: whenever a request of pg_query or pg_execute is evaluated the active mode
\* is one of readonly, limited, unrestricted, and no request fails on an unknown mode.
C8_UnrecognizedModeAbortsStartup ==
    \A t \in Tasks :
        tool[t] \in PolicyTools =>
            /\ _ACCESS_MODE \in ValidModes
            /\ ReasonKind(result[t]) # "UnknownAccessMode"

\* C10: at most one pool creation is in progress, at most one pool is ever created,
\* _pool never changes once set, every call that obtained a pool holds _pool, and a
\* failed creation leaves _pool unset and the lock free.
C10_State ==
    /\ Cardinality({t \in Tasks : pc[t] = "creating"}) <= 1
    /\ \A t \in Tasks : pc[t] = "creating" => _pool_lock = t
    /\ pools_created <= 1
    /\ \A t \in Tasks : got_pool[t] # 0 => got_pool[t] = _pool

C10_Step ==
    /\ C10_State'
    /\ _pool # 0 => _pool' = _pool
    /\ \A t \in Tasks :
          pc[t] = "creating" /\ pc'[t] = "raised"
              => _pool' = 0 /\ _pool_lock' = 0 /\ pools_created' = 0

C10_SinglePool == [][C10_Step]_vars

\* one call failed to create the pool, a later one created it, and a third party of
\* the same run holds that same pool
C10_Witness ==
    \E t \in Tasks : \E u \in Tasks :
        /\ result[t].exc = "OSError" /\ pc[t] = "raised"
        /\ u # t /\ got_pool[u] = _pool /\ _pool # 0
        /\ "create_pool" \in Range(db_ops[u])

(***************************************************************************)
(* C9, C2: the lexical spans as the specification describes them, by the   *)
(* place where each span ends rather than by a scan of its characters.     *)
(***************************************************************************)
TagChars == Range(UpperLetters) \cup Range(LowerLetters) \cup Range(Digits) \cup {"_"}

TagChar(c) == c \in TagChars

\* the $tag$ marker that opens at offset i, or the empty sequence
MarkerAt(s, i) ==
    LET stops == { j \in (i + 1)..(Len(s) - 1) : ~TagChar(Ch(s, j)) }
    IN  IF Ch(s, i) # "$" \/ stops = {} THEN << >>
        ELSE IF Ch(s, Least(stops)) = "$" THEN Slice(s, i, Least(stops) + 1)
        ELSE << >>

SpanKind(s, i) ==
    IF Slice(s, i, Min2(i + 2, Len(s))) = <<"-", "-">> THEN "line"
    ELSE IF Slice(s, i, Min2(i + 2, Len(s))) = <<"/", "*">> THEN "block"
    ELSE IF Ch(s, i) = "'" THEN "single"
    ELSE IF Ch(s, i) = "\"" THEN "double"
    ELSE IF MarkerAt(s, i) # << >> THEN "dollar"
    ELSE "code"

\* the opening delimiter of the span at offset i
Opener(s, i) ==
    IF SpanKind(s, i) \in {"line", "block"} THEN Slice(s, i, i + 2)
    ELSE IF SpanKind(s, i) = "dollar" THEN MarkerAt(s, i)
    ELSE <<Ch(s, i)>>

\* the closing delimiter of a span of that kind (a line comment has none)
Closer(s, i) ==
    IF SpanKind(s, i) = "line" THEN << >>
    ELSE IF SpanKind(s, i) = "block" THEN <<"*", "/">>
    ELSE Opener(s, i)

\* the length of the run of q that ends right before offset j, inside the literal
QuoteRun(s, i, j, q) ==
    Cardinality({ k \in (i + 1)..(j - 1) : \A m \in k..(j - 1) : Ch(s, m) = q })

\* the offsets where the closing delimiter of the span opened at i may start
Closings(s, i) ==
    LET kind == SpanKind(s, i)
        from == i + Len(Opener(s, i))
    IN  IF kind = "line" THEN { j \in from..(Len(s) - 1) : Ch(s, j) = "\n" }
        ELSE IF kind \in {"single", "double"}
        THEN { j \in from..(Len(s) - 1) :
                 /\ Ch(s, j) = Ch(s, i)
                 /\ QuoteRun(s, i, j, Ch(s, i)) % 2 = 0
                 /\ (j + 1 < Len(s) => Ch(s, j + 1) # Ch(s, i)) }
        ELSE { j \in from..(Len(s) - Len(Closer(s, i))) :
                 Slice(s, j, j + Len(Closer(s, i))) = Closer(s, i) }

Terminated(s, i) == Closings(s, i) # {}

\* where the content of the span opened at i ends
ContentEnd(s, i) == IF Terminated(s, i) THEN Least(Closings(s, i)) ELSE Len(s)

\* the offset after the span opened at i
SpanEnd(s, i) ==
    IF Terminated(s, i) THEN ContentEnd(s, i) + Len(Closer(s, i)) ELSE Len(s)

SpanContent(s, i) == Slice(s, i + Len(Opener(s, i)), ContentEnd(s, i))

\* the text with every span replaced by one space, code characters kept
RECURSIVE Scrubbed(_, _)
Scrubbed(s, i) ==
    IF i >= Len(s) THEN << >>
    ELSE IF SpanKind(s, i) = "code" THEN <<Ch(s, i)>> \o Scrubbed(s, i + 1)
    ELSE <<" ">> \o Scrubbed(s, SpanEnd(s, i))

\* the offsets at which a span opens
RECURSIVE SpanStarts(_, _)
SpanStarts(s, i) ==
    IF i >= Len(s) THEN {}
    ELSE IF SpanKind(s, i) = "code" THEN SpanStarts(s, i + 1)
    ELSE {i} \cup SpanStarts(s, SpanEnd(s, i))

\* C9: the stripper outputs the code characters unchanged and in order and exactly one
\* space for each span: a line comment up to (not including) the newline, a block
\* comment up to the first */ or the end, a quoted literal or identifier with the
\* doubled quote as escape, a dollar-quoted string up to the same marker or the end.
C9_StripperOutput ==
    g_pc = "stripped" => g_stripped = Scrubbed(g_sql, 0)

\* a text holding a terminated dollar-quoted span, a quote inside it, and code after it
C9_Witness ==
    /\ g_pc = "stripped"
    /\ g_sql = <<"$", "a", "$", "'", "$", "a", "$", "a">>
    /\ g_stripped = <<" ", "a">>

HidesKeyword(content) ==
    LET lowered == lower(content) IN \E w \in ReadonlyBlocked : contains(lowered, w)

\* the text with the content of every span that hides a keyword emptied
RECURSIVE Emptied(_, _)
Emptied(s, i) ==
    IF i >= Len(s) THEN << >>
    ELSE IF SpanKind(s, i) = "code" THEN <<Ch(s, i)>> \o Emptied(s, i + 1)
    ELSE IF HidesKeyword(SpanContent(s, i))
    THEN Opener(s, i)
           \o (IF Terminated(s, i) THEN Closer(s, i) ELSE << >>)
           \o Emptied(s, SpanEnd(s, i))
    ELSE Slice(s, i, SpanEnd(s, i)) \o Emptied(s, SpanEnd(s, i))

\* C2: in ReadOnly and Limited modes, when a forbidden keyword lies inside a quoted
\* literal, a quoted identifier, a comment or a dollar-quoted body, the decision is the
\* decision for the same text with the content of that span emptied.
C2_HiddenKeywordIgnored ==
    (/\ g_pc = "checked"
     /\ _ACCESS_MODE \in {s_readonly, s_limited}
     /\ \E i \in SpanStarts(g_sql, 0) : HidesKeyword(SpanContent(g_sql, i)))
        => g_result = _enforce_access_policy(Emptied(g_sql, 0), g_tool, _ACCESS_MODE)

\* select 'Drop' is allowed in ReadOnly mode
C2_Witness ==
    /\ g_pc = "checked"
    /\ _ACCESS_MODE = s_readonly
    /\ g_sql = <<"s", "e", "l", "e", "c", "t", " ", "'", "D", "r", "o", "p", "'">>
    /\ g_result = NoError

(***************************************************************************)
(* C3 - C7: the classifier.  The text classified is the scrubbed text,     *)
(* trimmed, without its trailing terminator, lowercased.                   *)
(***************************************************************************)
Classified == lower(normalized(g_stripped))

Checked(modes) == g_pc = "checked" /\ _ACCESS_MODE \in modes

\* the offsets at which word occurs in text
Occurrences(text, word) ==
    { i \in 0..(Len(text) - Len(word)) : Slice(text, i, i + Len(word)) = word }

\* the occurrence at i has no character of chars next to it
Bounded(text, word, i, chars) ==
    /\ i > 0 => Ch(text, i - 1) \notin chars
    /\ i + Len(word) < Len(text) => Ch(text, i + Len(word)) \notin chars

\* the occurrence at i has a delimiter or a text edge on either side
Delimited(text, word, i, delims) ==
    /\ i > 0 => Ch(text, i - 1) \in delims
    /\ i + Len(word) < Len(text) => Ch(text, i + Len(word)) \in delims

WordChars == AlnumChars \cup {"_"}

TokenDelimiters == {" ", "\n", "\t", "(", ")", ","}

HasWord(text, words, chars) ==
    \E w \in words : \E i \in Occurrences(text, w) : Bounded(text, w, i, chars)

\* ";" is left after the trailing whitespace and every trailing ";" are removed:
\* some ";" has a character other than ";" after it, before the trailing whitespace
SemicolonLeft(s) ==
    \E i \in 1..Len(s) : \E j \in (i + 1)..Len(s) :
        /\ s[i] = ";"
        /\ s[j] # ";"
        /\ \E k \in j..Len(s) : ~isspace(s[k])

\* the text the specification's normalizer keeps: trimmed, one trailing ";" removed
OneTerminatorRemoved(s) == strip(rstrip_one_semicolon(strip(s)))

\* C3: in ReadOnly mode with category Query a single statement is allowed only if its
\* text starts with select, with or explain, holds no forbidden word as a token of its
\* own (between whitespace, parentheses, commas, text edges) and, when it starts with
\* explain, holds the whole word select or with; every other one is denied with
\* StatementTypeForbidden.
C3_Allowable(text) ==
    /\ \E w \in ReadonlyLeading : startswith(text, w, 0)
    /\ ~\E w \in ReadonlyBlocked : \E i \in Occurrences(text, w) :
            Delimited(text, w, i, TokenDelimiters)
    /\ startswith(text, s_explain, 0) => HasWord(text, {s_select, s_with}, AlnumChars)

C3_ReadonlyQuery ==
    (/\ Checked({s_readonly})
     /\ g_tool = "pg_query"
     /\ ReasonKind(g_result) # "MultipleStatementsForbidden")
        => /\ g_result = NoError => C3_Allowable(Classified)
           /\ ~C3_Allowable(Classified) => ReasonKind(g_result) = "StatementTypeForbidden"
           /\ ReasonKind(g_result) \in {"Allow", "StatementTypeForbidden"}

\* an explain of a select is allowed, the text given in mixed case
C3_Witness ==
    /\ Checked({s_readonly})
    /\ g_tool = "pg_query"
    /\ g_sql = <<"E", "x", "p", "l", "a", "i", "n", " ", "s", "e", "l", "e", "c", "t">>
    /\ g_result = NoError

\* C4 as stated: in Limited mode, when update or delete occurs as a whole word in a
\* single statement that no earlier rule denies, the text from the first whole-word
\* occurrence of either must hold " where " or end with " where", else the statement
\* is denied with MissingWhereClause.
C4_FirstWholeWord(text) ==
    Least({ i \in Occurrences(text, s_update) : Bounded(text, s_update, i, AlnumChars) }
          \cup
          { i \in Occurrences(text, s_delete) : Bounded(text, s_delete, i, AlnumChars) })

C4_WhereRequired ==
    (/\ Checked({s_limited})
     /\ ReasonKind(g_result) \notin {"MultipleStatementsForbidden", "StatementTypeForbidden"}
     /\ HasWord(Classified, {s_update, s_delete}, AlnumChars)
     /\ LET tail == Slice(Classified, C4_FirstWholeWord(Classified), Len(Classified))
        IN  ~contains(tail, s_where_mid) /\ ~endswith(tail, s_where_end))
        => ReasonKind(g_result) = "MissingWhereClause"

\* C5 as stated: at most one trailing ";" is removed, and the statement is denied with
\* MultipleStatementsForbidden exactly when a ";" remains after that.
C5_OneTerminator ==
    Checked({s_readonly, s_limited})
        => (ReasonKind(g_result) = "MultipleStatementsForbidden"
              <=> contains(OneTerminatorRemoved(g_stripped), <<";">>))

\* C5 amended: in ReadOnly and Limited modes the normalizer trims whitespace and removes
\* every ";" of the trailing run of terminators; the Gate denies with
\* MultipleStatementsForbidden exactly when a ";" remains after that, so never for a
\* text whose only ";" is a single trailing one, and always when a ";" is followed by
\* anything but ";" and trailing whitespace.
C5_TrailingRun ==
    Checked({s_readonly, s_limited})
        => /\ ReasonKind(g_result) = "MultipleStatementsForbidden"
                <=> SemicolonLeft(g_stripped)
           /\ Cardinality({ i \in 1..Len(g_stripped) : g_stripped[i] = ";" }) = 1
              /\ strip(g_stripped)[Len(strip(g_stripped))] = ";"
                => ReasonKind(g_result) # "MultipleStatementsForbidden"

\* "select;;" passes the single-statement check
C5_Witness ==
    /\ Checked({s_readonly})
    /\ g_tool = "pg_query"
    /\ g_sql = <<"s", "e", "l", "e", "c", "t", ";", ";">>
    /\ g_result = NoError

\* C6 as stated: in ReadOnly mode every pg_execute call is denied with ToolForbidden.
C6_AlwaysToolForbidden ==
    Checked({s_readonly}) /\ g_tool = "pg_execute"
        => ReasonKind(g_result) = "ToolForbidden"

\* C6 amended: in ReadOnly mode every pg_execute call is denied for every SQL text; the
\* reason is MultipleStatementsForbidden when a ";" remains after the normalizer, and
\* ToolForbidden for every other text, the empty and the comment-only ones included.
C6_ExecuteDenied ==
    Checked({s_readonly}) /\ g_tool = "pg_execute"
        => /\ g_result.exc = "PermissionError"
           /\ ReasonKind(g_result) =
                 IF SemicolonLeft(g_stripped) THEN "MultipleStatementsForbidden"
                 ELSE "ToolForbidden"

\* a pg_execute of a plain select is denied with ToolForbidden
C6_Witness ==
    /\ Checked({s_readonly})
    /\ g_tool = "pg_execute"
    /\ g_sql = <<"s", "e", "l", "e", "c", "t", " ", "(">>
    /\ ReasonKind(g_result) = "ToolForbidden"

\* C7 as stated: every whole-word rule accepts an occurrence exactly when neither
\* neighbour is alphanumeric; here the Limited grant/revoke and drop/truncate rules.
C7_AlnumBoundaryEverywhere ==
    (Checked({s_limited}) /\ ReasonKind(g_result) # "MultipleStatementsForbidden")
        => (g_result.msg \in {"DCL (GRANT/REVOKE) is not allowed in limited access mode.",
                              "DROP/TRUNCATE are not allowed in limited access mode."}
              <=> HasWord(Classified, {s_grant, s_revoke, s_drop, s_truncate}, AlnumChars))

\* the first occurrence of update or delete, when neither neighbour is alphanumeric
C7_Examined(text) ==
    { i \in Occurrences(text, s_update) :
        i = Least(Occurrences(text, s_update)) /\ Bounded(text, s_update, i, AlnumChars) }
    \cup
    { i \in Occurrences(text, s_delete) :
        i = Least(Occurrences(text, s_delete)) /\ Bounded(text, s_delete, i, AlnumChars) }

\* C7 amended: the ReadOnly forbidden-word list and the Limited grant/revoke and
\* drop/truncate rules accept a keyword occurrence exactly when neither neighbour is
\* alphanumeric or an underscore; the update/delete WHERE rule looks at the first
\* occurrence of each word and accepts it exactly when neither neighbour is
\* alphanumeric (an underscore is a boundary there).
C7_WordBoundaries ==
    (Checked({s_readonly, s_limited})
     /\ ReasonKind(g_result) # "MultipleStatementsForbidden")
        => LET text == Classified
           IN  /\ (_ACCESS_MODE = s_readonly
                   /\ g_result.msg # "Only SELECT queries are allowed in readonly access mode.")
                     => (g_result.msg = "Readonly access mode blocks DML/DDL/DCL statements."
                           <=> HasWord(text, ReadonlyBlocked, WordChars))
               /\ _ACCESS_MODE = s_limited
                     => /\ g_result.msg = "DCL (GRANT/REVOKE) is not allowed in limited access mode."
                           <=> HasWord(text, {s_grant, s_revoke}, WordChars)
                        /\ g_result.msg = "DROP/TRUNCATE are not allowed in limited access mode."
                           <=> /\ ~HasWord(text, {s_grant, s_revoke}, WordChars)
                               /\ HasWord(text, {s_drop, s_truncate}, WordChars)
                        /\ ReasonKind(g_result) = "MissingWhereClause"
                           <=> /\ ~HasWord(text, {s_grant, s_revoke, s_drop, s_truncate},
                                           WordChars)
                               /\ C7_Examined(text) # {}
                               /\ LET tail == Slice(text, Least(C7_Examined(text)), Len(text))
                                  IN  ~contains(tail, s_where_mid)
                                      /\ ~endswith(tail, s_where_end)

\* "select drop_" passes the drop rule in Limited mode
C7_Witness ==
    /\ Checked({s_limited})
    /\ Classified = <<"s", "e", "l", "e", "c", "t", " ", "d", "r", "o", "p", "_">>
    /\ g_result = NoError
=============================================================================
